---- MODULE Spec2Model ----
(***************************************************************************)
(* Model of src/ClientForm.tsx: one mount of the ClientForm component.     *)
(*                                                                         *)
(* The component is event driven and single threaded.  Every action below  *)
(* is one synchronous run of a callback or of the continuation of an       *)
(* await: React batches the state setters called in one such run, so the   *)
(* run is one atomic step.  The state variables hold the value most        *)
(* recently handed to the corresponding setter.                            *)
(*                                                                         *)
(* JavaScript values are modelled as TLA+ strings; the two non-string      *)
(* values a JSON response can put in a field, undefined (property absent)  *)
(* and null, are the sentinels UNDEFINED and NULL.  The Russian texts of   *)
(* the source are transliterated.                                          *)
(***************************************************************************)
EXTENDS Integers, Sequences, FiniteSets, TLC

\* ---------------------------------------------------------------- bounds
MaxEdits == 4      \* handleChange events per mount
MaxSubmits == 2    \* submit events per mount

\* ------------------------------------------------------- JavaScript values
UNDEFINED == "<undefined>"
NULL == "<null>"

IsString(v) == v \notin {UNDEFINED, NULL}

\* JavaScript truthiness of a string, null or undefined
Falsy(v) == v \in {UNDEFINED, NULL, ""}

\* a || b
JsOr(a, b) == IF Falsy(a) THEN b ELSE a

\* clientId?: number; NoId stands for an omitted prop (undefined)
NoId == -1
ClientIds == {NoId, 0, 42}
TruthyId(id) == id \notin {NoId, 0}

\* `${clientId}` inside a template literal
IdText(id) == IF id = NoId THEN "undefined" ELSE ToString(id)

\* ------------------------------------------------------------- data model
Required == {"full_name", "phone", "passport_number"}
Optional == {"email", "address", "passport_issue_date", "passport_expiry_date",
             "driver_license_number", "driver_license_expiry", "notes"}
Fields == Required \cup Optional

Blank ==
  [full_name |-> "", email |-> "", phone |-> "", address |-> "",
   passport_number |-> "", passport_issue_date |-> "",
   passport_expiry_date |-> "", driver_license_number |-> "",
   driver_license_expiry |-> "", notes |-> ""]

\* texts of the banners
LoadFailedText == "Ne udalos zagruzit dannye klienta"
LoadThrownText == "Oshibka pri zagruzke dannyh"
SubmitOkText == "Operaciya vypolnena uspeshno"
SubmitFailedText == "Proizoshla oshibka"
SubmitThrownText == "Proizoshla oshibka pri otpravke dannyh"

\* ------------------------------------------------- the served environment
\* a complete record as the backend stores it: every field its own value
Served ==
  [full_name |-> "A", email |-> "a@b", phone |-> "1", address |-> "Addr",
   passport_number |-> "P", passport_issue_date |-> "2001-01-01",
   passport_expiry_date |-> "2011-01-01", driver_license_number |-> "D",
   driver_license_expiry |-> "2021-01-01", notes |-> "N"]

\* client objects of a read response: the complete record; the record of
\* the documented scenario (email null, the other optional fields absent);
\* and a record whose required fields are absent, null and empty
Scenario ==
  [f \in Fields |-> IF f \in Required THEN Served[f]
                    ELSE IF f = "email" THEN NULL ELSE UNDEFINED]
RequiredMissing ==
  [Served EXCEPT !.full_name = UNDEFINED, !.phone = NULL,
                 !.passport_number = ""]
ClientObjects == {Served, Scenario, RequiredMissing}

Messages == {UNDEFINED, NULL, "", "Duplicate passport"}

\* what a request can complete with: a throw (transport error, malformed
\* JSON) or a parsed body
ReadOutcomes ==
  { [thrown |-> TRUE, success |-> FALSE, hasClient |-> FALSE,
     client |-> Served, message |-> UNDEFINED] }
  \cup [thrown : {FALSE}, success : {FALSE}, hasClient : {FALSE},
        client : {Served}, message : Messages]
  \cup [thrown : {FALSE}, success : BOOLEAN, hasClient : {TRUE},
        client : ClientObjects, message : {UNDEFINED}]
  \cup [thrown : {FALSE}, success : {TRUE}, hasClient : {FALSE},
        client : {Served}, message : Messages]

WriteOutcomes ==
  { [thrown |-> TRUE, success |-> FALSE, message |-> UNDEFINED] }
  \cup [thrown : {FALSE}, success : BOOLEAN, message : Messages]

\* the inputs the user types into (the three required ones and an optional
\* one) and what is typed
EditNames == Required \cup {"notes"}
EditValues == {"", "x"}

VARIABLES
  isEditMode, clientId,     \* the props of the mount
  formData, loading, submitting, error, success,   \* the useState cells
  effectDone,               \* the mount effect has run
  mounted,                  \* the component has not been torn down
  reads, writes,            \* requests in flight
  timers,                   \* pending setTimeout callbacks
  navs,                     \* router.push('/clients') calls: [cancel, timer]
  loadResult, writeResult,  \* outcome of the completed read / the last write
  okWrites,                 \* write requests that completed with success
  edits, submits            \* events so far

vars == <<isEditMode, clientId, formData, loading, submitting, error, success,
          effectDone, mounted, reads, writes, timers, navs, loadResult,
          writeResult, okWrites, edits, submits>>

props == <<isEditMode, clientId>>

NoLoad == [kind |-> "none", client |-> Served]
NoWrite == "none"

Init ==
  /\ isEditMode \in BOOLEAN
  /\ clientId \in ClientIds
  /\ formData = Blank
  /\ loading = isEditMode
  /\ submitting = FALSE
  /\ error = ""
  /\ success = ""
  /\ effectDone = FALSE
  /\ mounted = TRUE
  /\ reads = <<>>
  /\ writes = <<>>
  /\ timers = 0
  /\ navs = [cancel |-> 0, timer |-> 0]
  /\ loadResult = NoLoad
  /\ writeResult = NoWrite
  /\ okWrites = 0
  /\ edits = 0
  /\ submits = 0

\* ------------------------------------------------------------ mount effect
\* useEffect: the condition under which the record is fetched
EffectFetches == isEditMode /\ TruthyId(clientId)

\* `/api/clients/${clientId}`
RecordUrl(id) == <<"api", "clients", IdText(id)>>
CollectionUrl == <<"api", "clients">>

UseEffect ==
  /\ ~effectDone
  /\ effectDone' = TRUE
  /\ reads' = IF EffectFetches THEN Append(reads, RecordUrl(clientId)) ELSE reads
  /\ UNCHANGED <<props, formData, loading, submitting, error, success, mounted,
                 writes, timers, navs, loadResult, writeResult, okWrites,
                 edits, submits>>

\* -------------------------------------------------------------- fetchClient
LoadedFormData_DatesSwapped(c) ==
  [full_name |-> c.full_name,
   email |-> JsOr(c.email, ""),
   phone |-> c.phone,
   address |-> JsOr(c.address, ""),
   passport_number |-> c.passport_number,
   passport_issue_date |-> JsOr(c.passport_expiry_date, ""),
   passport_expiry_date |-> JsOr(c.passport_issue_date, ""),
   driver_license_number |-> JsOr(c.driver_license_number, ""),
   driver_license_expiry |-> JsOr(c.driver_license_expiry, ""),
   notes |-> JsOr(c.notes, "")]

\* the object handed to setFormData after a successful read
LoadedFormData(c) ==
  [full_name |-> c.full_name,
   email |-> JsOr(c.email, ""),
   phone |-> c.phone,
   address |-> JsOr(c.address, ""),
   passport_number |-> c.passport_number,
   passport_issue_date |-> JsOr(c.passport_issue_date, ""),
   passport_expiry_date |-> JsOr(c.passport_expiry_date, ""),
   driver_license_number |-> JsOr(c.driver_license_number, ""),
   driver_license_expiry |-> JsOr(c.driver_license_expiry, ""),
   notes |-> JsOr(c.notes, "")]

\* data.success && data.client
LoadSucceeded(o) == ~o.thrown /\ o.success /\ o.hasClient

LoadErrorText_NoDefault(o) ==
  IF o.thrown THEN LoadThrownText ELSE o.message

\* the text handed to setError when the read did not succeed
LoadErrorText(o) ==
  IF o.thrown THEN LoadThrownText ELSE JsOr(o.message, LoadFailedText)

\* which of the three ways a read fails: the catch block, success false, or
\* success true without a client object
LoadFailureKind(o) ==
  IF o.thrown THEN "thrown" ELSE IF ~o.success THEN "refused" ELSE "noclient"

\* the continuation of fetchClient after its awaits: try, catch and finally
FetchClientDone(o) ==
  /\ reads # <<>>
  /\ reads' = Tail(reads)
  /\ IF LoadSucceeded(o)
       THEN /\ formData' = LoadedFormData(o.client)
            /\ error' = error
            /\ loadResult' = [kind |-> "ok", client |-> o.client]
       ELSE /\ formData' = formData
            /\ error' = LoadErrorText(o)
            /\ loadResult' = [kind |-> LoadFailureKind(o), client |-> Served]
  /\ loading' = FALSE
  /\ UNCHANGED <<props, submitting, success, effectDone, mounted, writes,
                 timers, navs, writeResult, okWrites, edits, submits>>

\* ------------------------------------------------------------- the markup
FormRendered_WhileLoading == mounted /\ effectDone

\* `if (loading) return <div>...`: the form (inputs, both buttons) is there
\* only when loading is false, and only while the component is mounted
FormRendered == mounted /\ effectDone /\ ~loading

\* value shown by an <input value={v}>: null and undefined show as empty
DomValue(v) == IF IsString(v) THEN v ELSE ""

RequiredGate_Off == TRUE

\* the browser's check of the three `required` inputs before onSubmit
RequiredGate == \A f \in Required : DomValue(formData[f]) # ""

SubmitButtonEnabled_Always == TRUE

\* disabled={submitting} on the submit button
SubmitButtonEnabled == ~submitting

\* ------------------------------------------------------------ handleChange
handleChange_NoSpread(name, value) ==
  /\ FormRendered
  /\ edits < MaxEdits
  /\ value # DomValue(formData[name])
  /\ formData' = [f \in Fields |-> IF f = name THEN value ELSE UNDEFINED]
  /\ edits' = edits + 1
  /\ UNCHANGED <<props, loading, submitting, error, success, effectDone,
                 mounted, reads, writes, timers, navs, loadResult,
                 writeResult, okWrites, submits>>

handleChange(name, value) ==
  /\ FormRendered
  /\ edits < MaxEdits
  /\ value # DomValue(formData[name])
  /\ formData' = [formData EXCEPT ![name] = value]
  /\ edits' = edits + 1
  /\ UNCHANGED <<props, loading, submitting, error, success, effectDone,
                 mounted, reads, writes, timers, navs, loadResult,
                 writeResult, okWrites, submits>>

\* ------------------------------------------------------------ handleSubmit
RequestMethod_ById == IF TruthyId(clientId) THEN "PUT" ELSE "POST"

RequestMethod == IF isEditMode THEN "PUT" ELSE "POST"
RequestUrl == IF isEditMode THEN RecordUrl(clientId) ELSE CollectionUrl

JsonBody_DropsEmpty(d) == [f \in {g \in Fields : d[g] # ""} |-> d[f]]

\* JSON.stringify of the field object: a property whose value is undefined
\* is left out, null is kept
JsonBody(d) == [f \in {g \in Fields : d[g] # UNDEFINED} |-> d[f]]

MessageOnSubmit_Kept(old) == old

\* setError('') and setSuccess('') at the start of handleSubmit
MessageOnSubmit(old) == ""

\* the submit event up to the first await
handleSubmit ==
  /\ FormRendered
  /\ SubmitButtonEnabled
  /\ RequiredGate
  /\ submits < MaxSubmits
  /\ error' = MessageOnSubmit(error)
  /\ success' = MessageOnSubmit(success)
  /\ submitting' = TRUE
  /\ writes' = Append(writes, [method |-> RequestMethod, url |-> RequestUrl,
                               body |-> JsonBody(formData)])
  /\ submits' = submits + 1
  /\ UNCHANGED <<props, formData, loading, effectDone, mounted, reads, timers,
                 navs, loadResult, writeResult, okWrites, edits>>

\* the text handed to setSuccess
SubmitOkMessage(o) == JsOr(o.message, SubmitOkText)

SubmitErrorText_NoDefault(o) ==
  IF o.thrown THEN SubmitThrownText ELSE o.message

\* the text handed to setError
SubmitErrorText(o) ==
  IF o.thrown THEN SubmitThrownText ELSE JsOr(o.message, SubmitFailedText)

FormAfterSuccess_NeverReset(d) == d

FormAfterSuccess_AlwaysReset(d) == Blank

\* the fields after a success response: cleared after a creation
FormAfterSuccess(d) == IF ~isEditMode THEN Blank ELSE d

\* setTimeout(() => router.push('/clients'), 2000) after a success response
TimersAfterSuccess(n) == n + 1

SubmittingAfterDone_NotOnThrow(o) == o.thrown

\* the finally block: setSubmitting(false)
SubmittingAfterDone(o) == FALSE

Remove(s, i) == SubSeq(s, 1, i - 1) \o SubSeq(s, i + 1, Len(s))

WritesAfterDone_Retry(ws, i, o) ==
  IF o.thrown THEN Append(Remove(ws, i), ws[i]) ELSE Remove(ws, i)

\* the requests in flight once request i has completed with o: neither the
\* else branch nor the catch block issues another request
WritesAfterDone(ws, i, o) == Remove(ws, i)

\* the continuation of handleSubmit after its awaits, for request i in flight
SubmitDone(i, o) ==
  /\ i \in 1..Len(writes)
  /\ writes' = WritesAfterDone(writes, i, o)
  /\ IF ~o.thrown /\ o.success
       THEN /\ success' = SubmitOkMessage(o)
            /\ formData' = FormAfterSuccess(formData)
            /\ timers' = TimersAfterSuccess(timers)
            /\ error' = error
            /\ writeResult' = "ok"
            /\ okWrites' = okWrites + 1
       ELSE /\ error' = SubmitErrorText(o)
            /\ UNCHANGED <<success, formData, timers, okWrites>>
            /\ writeResult' = "failed"
  /\ submitting' = SubmittingAfterDone(o)
  /\ UNCHANGED <<props, loading, effectDone, mounted, reads, navs, loadResult,
                 edits, submits>>

\* the callback of setTimeout: router.push('/clients').  The navigation
\* replaces the page, which tears the component down (if it still is there)
TimerFire ==
  /\ timers > 0
  /\ timers' = timers - 1
  /\ navs' = [navs EXCEPT !.timer = @ + 1]
  /\ mounted' = FALSE
  /\ UNCHANGED <<props, formData, loading, submitting, error, success,
                 effectDone, reads, writes, loadResult, writeResult,
                 okWrites, edits, submits>>

Cancel_ClearsTimer ==
  /\ FormRendered
  /\ navs' = [navs EXCEPT !.cancel = @ + 1]
  /\ mounted' = FALSE
  /\ timers' = 0
  /\ UNCHANGED <<props, formData, loading, submitting, error, success,
                 effectDone, reads, writes, loadResult,
                 writeResult, okWrites, edits, submits>>

\* onClick of the cancel button: router.push('/clients'), which tears the
\* component down
Cancel ==
  /\ FormRendered
  /\ navs' = [navs EXCEPT !.cancel = @ + 1]
  /\ mounted' = FALSE
  /\ UNCHANGED <<props, formData, loading, submitting, error, success,
                 effectDone, reads, writes, timers, loadResult,
                 writeResult, okWrites, edits, submits>>

Teardown_Aborts ==
  /\ mounted
  /\ effectDone
  /\ mounted' = FALSE
  /\ reads' = <<>>
  /\ writes' = <<>>
  /\ timers' = 0
  /\ UNCHANGED <<props, formData, loading, submitting, error, success,
                 effectDone, navs, loadResult, writeResult, okWrites, edits,
                 submits>>

\* the component is torn down (the user has navigated away); no effect has a
\* cleanup, so requests in flight and pending timers stay as they are
Teardown ==
  /\ mounted
  /\ effectDone
  /\ mounted' = FALSE
  /\ UNCHANGED <<props, formData, loading, submitting, error, success,
                 effectDone, reads, writes, timers, navs, loadResult,
                 writeResult, okWrites, edits, submits>>

Load == \E o \in ReadOutcomes : FetchClientDone(o)
Change == \E name \in EditNames, value \in EditValues : handleChange(name, value)
Respond == \E i \in 1..Len(writes), o \in WriteOutcomes : SubmitDone(i, o)

Next ==
  \/ UseEffect
  \/ Load
  \/ Change
  \/ handleSubmit
  \/ Respond
  \/ TimerFire
  \/ Cancel
  \/ Teardown

Spec == Init /\ [][Next]_vars

\* every request completes and every timer fires: the event loop runs the
\* mount effect, the continuations of the awaits and the timer callbacks
FairSpec ==
  /\ Spec
  /\ WF_vars(UseEffect)
  /\ WF_vars(Load)
  /\ WF_vars(Respond)
  /\ WF_vars(TimerFire)

NavCount == navs.cancel + navs.timer

\* ------------------------------------------------------------ properties
NonEmptyString(v) == IsString(v) /\ v # ""

\* a step in which a write request completes with success / with failure
WriteSucceeds == okWrites' = okWrites + 1
WriteFails == Len(writes') < Len(writes) /\ writeResult' = "failed"

\* the n-th delayed navigation fires, for every n
EveryTimerFires == \A n \in 0..(MaxSubmits - 1) : (okWrites > n) ~> (navs.timer > n)

\* C1 as stated: in create mode, once a create request has returned success
\* the fields were reset and the mount makes no more than one navigation call
C1_Original ==
  (~isEditMode /\ okWrites >= 1) => NavCount <= 1

\* C1 as amended: in create mode, a success response resets all ten fields
\* to the empty string and schedules exactly one delayed navigation without
\* navigating itself; no scheduled navigation is ever cancelled and each one
\* fires, so the mount navigates once per successful submit and once more
\* per cancel click
C1_Amended ==
  /\ [][(~isEditMode /\ WriteSucceeds) =>
          /\ \A f \in Fields : formData'[f] = ""
          /\ timers' = timers + 1
          /\ navs' = navs]_vars
  /\ [][okWrites' = timers' + navs'.timer]_vars
  /\ EveryTimerFires

C1_Witness ==
  ~isEditMode /\ okWrites = 1 /\ navs.cancel = 1 /\ navs.timer = 1
  /\ formData = Blank

\* C2 as stated: a failed write leaves the fields alone, sets a non-empty
\* error message, and no delayed navigation fires afterwards
C2_Original ==
  [][/\ WriteFails => (formData' = formData /\ NonEmptyString(error'))
     /\ writeResult = "failed" => navs'.timer = navs.timer]_vars

\* C2 as amended: a failed write itself leaves the fields alone, sets a
\* non-empty error message, schedules no navigation and makes no navigation
\* call; a navigation that fires afterwards is the pending delayed
\* navigation of an earlier successful submit
C2_Amended ==
  [][/\ WriteFails =>
          /\ formData' = formData
          /\ NonEmptyString(error')
          /\ timers' = timers
          /\ navs' = navs
     /\ (writeResult = "failed" /\ navs'.timer # navs.timer) =>
          (okWrites >= 1 /\ timers >= 1 /\ timers' = timers - 1)]_vars

C2_Witness ==
  writeResult = "failed" /\ okWrites = 1 /\ navs.timer = 1 /\ error # ""

\* C3: in edit mode a success response leaves the fields as they are, sets
\* a success message, schedules the delayed navigation, and that navigation
\* fires
C3_UpdateSuccess ==
  /\ [][(isEditMode /\ WriteSucceeds) =>
          /\ formData' = formData
          /\ NonEmptyString(success')
          /\ timers' = timers + 1
          /\ navs' = navs]_vars
  /\ EveryTimerFires

C3_Witness ==
  isEditMode /\ okWrites = 1 /\ navs.timer = 1 /\ formData.notes = "x"

\* C4 as stated: every mount that starts in Loading leaves Loading
C4_LoadingEnds == loading ~> ~loading

\* C5 as stated: PUT exactly when an identifier was supplied at mount, POST
\* exactly when none was
C5_Original ==
  \A i \in 1..Len(writes) :
    /\ writes[i].method = "PUT" <=> TruthyId(clientId)
    /\ writes[i].method = "POST" <=> ~TruthyId(clientId)

\* C5 as amended: PUT to the record's path exactly when isEditMode is true,
\* and then the identifier is a real one; POST to the collection exactly
\* when isEditMode is false, whether or not an identifier was supplied
C5_Amended ==
  \A i \in 1..Len(writes) :
    /\ writes[i].method \in {"PUT", "POST"}
    /\ writes[i].method = "PUT" <=> isEditMode
    /\ writes[i].method = "PUT" =>
         (TruthyId(clientId) /\ writes[i].url = <<"api", "clients", "42">>)
    /\ writes[i].method = "POST" => writes[i].url = <<"api", "clients">>

C5_Witness ==
  \E i \in 1..Len(writes) : writes[i].method = "POST" /\ clientId = 42

\* C6: at most one write request is in flight
C6_OneInFlight == Len(writes) <= 1

C6_Witness == Len(writes) = 1 /\ submitting /\ submits = 2

\* C7: every Submitting is followed by Ready, and the step that sets a
\* success or error message leaves submitting false
C7_SubmittingEnds ==
  /\ submitting ~> ~submitting
  /\ [][((success' # success /\ success' # "")
          \/ (error' # error /\ error' # "")) => ~submitting']_vars

C7_Witness == ~submitting /\ writeResult = "ok" /\ submits = 1 /\ timers = 1

\* C8: a failed load enters Ready with all ten fields empty and a non-empty
\* error message
C8_FailedLoad ==
  [][(loading /\ loadResult'.kind \in {"thrown", "refused", "noclient"}) =>
       /\ ~loading'
       /\ \A f \in Fields : formData'[f] = ""
       /\ NonEmptyString(error')]_vars

C8_Witness == loadResult.kind = "noclient" /\ ~loading /\ edits = 0

\* C9: after a successful load every field holds the served value of the
\* same name, an optional field that is null or absent holds ''
C9_LoadedFields ==
  [][(loadResult.kind = "none" /\ loadResult'.kind = "ok") =>
       \A f \in Fields :
         formData'[f] =
           IF f \in Optional /\ loadResult'.client[f] \in {NULL, UNDEFINED}
             THEN ""
             ELSE loadResult'.client[f]]_vars

C9_Witness ==
  /\ loadResult.kind = "ok"
  /\ loadResult.client.email = NULL
  /\ loadResult.client.notes = UNDEFINED
  /\ formData.email = ""
  /\ formData.full_name = "A"

\* C10: while submitting is true both messages are empty
C10_NoBannerInFlight == submitting => (error = "" /\ success = "")

C10_Witness == submitting /\ writeResult = "failed" /\ loadResult.kind = "ok"

\* C11: a submit event issues exactly one write request and the mount effect
\* at most one read request; a failed load or a failed submit issues no
\* request and leaves the form in Ready with the submit button enabled, and
\* requests keep being issued after a failure only by submit events
FailedKinds == {"thrown", "refused", "noclient"}

C11_NoRetry ==
  [][/\ submits' = submits + 1 =>
          (Len(writes') = Len(writes) + 1 /\ reads' = reads)
     /\ Len(writes') > Len(writes) => submits' = submits + 1
     /\ Len(reads') > Len(reads) =>
          (~effectDone /\ effectDone' /\ Len(reads') = 1)
     /\ (submitting /\ ~submitting' /\ writeResult' = "failed") =>
          /\ Len(writes') = Len(writes) - 1
          /\ reads' = reads
          /\ ~loading' /\ SubmitButtonEnabled'
     /\ (loading /\ loadResult'.kind \in FailedKinds) =>
          /\ reads' = <<>> /\ writes' = writes
          /\ ~loading' /\ SubmitButtonEnabled']_vars

C11_Witness ==
  loadResult.kind = "refused" /\ writeResult = "failed" /\ Len(writes) = 1

\* C12: no write request in flight has an empty, null or absent full_name,
\* phone or passport_number in its body
C12_RequiredInBody ==
  \A i \in 1..Len(writes) :
    \A f \in Required :
      /\ f \in DOMAIN writes[i].body
      /\ NonEmptyString(writes[i].body[f])

C12_Witness ==
  /\ Len(writes) = 1
  /\ loadResult.kind = "ok"
  /\ loadResult.client = RequiredMissing

\* C13: a click on cancel makes one navigation call and leaves the fields,
\* both messages, the flags, the requests in flight and the pending timers
\* as they are; the button is there whenever the form is rendered, also
\* while a request is in flight
C13_CancelFrame ==
  /\ [][navs'.cancel # navs.cancel =>
          /\ navs'.cancel = navs.cancel + 1
          /\ navs'.timer = navs.timer
          /\ UNCHANGED <<formData, error, success, loading, submitting,
                         reads, writes, timers>>]_vars
  /\ [](FormRendered => ENABLED Cancel)

C13_Witness ==
  navs.cancel = 1 /\ submitting /\ Len(writes) = 1 /\ timers = 1

\* C14: a change event sets exactly the named field to the typed value and
\* leaves the other nine fields, both messages, both flags, the requests in
\* flight, the timers and the navigation calls as they are
C14_ChangeFrame ==
  [][edits' = edits + 1 =>
       /\ \E name \in Fields, value \in EditValues :
            /\ formData'[name] = value
            /\ \A f \in Fields \ {name} : formData'[f] = formData[f]
       /\ Cardinality({f \in Fields : formData'[f] # formData[f]}) = 1
       /\ UNCHANGED <<error, success, loading, submitting, reads, writes,
                      timers, navs>>]_vars

C14_Witness ==
  /\ submitting
  /\ Len(writes) = 1
  /\ writes[1].body.full_name # ""
  /\ formData.full_name = ""

\* C15: tearing the component down cancels nothing.  The requests in flight
\* and the pending timers stay; a response that arrives afterwards runs the
\* same continuation (flags cleared, message set, on success one more
\* timer); and every request still completes and every timer still fires
C15_NothingCancelled ==
  /\ [][(mounted /\ ~mounted') =>
          /\ reads' = reads
          /\ writes' = writes
          /\ timers' + navs'.timer = timers + navs.timer]_vars
  /\ [][(~mounted /\ Len(writes') < Len(writes)) =>
          /\ ~submitting'
          /\ writeResult' = "ok" =>
               (timers' = timers + 1 /\ NonEmptyString(success'))
          /\ writeResult' = "failed" =>
               (timers' = timers /\ NonEmptyString(error'))]_vars
  /\ [][(~mounted /\ Len(reads') < Len(reads)) =>
          /\ ~loading'
          /\ loadResult'.kind = "ok" =>
               formData' = LoadedFormData(loadResult'.client)
          /\ loadResult'.kind \in FailedKinds => NonEmptyString(error')]_vars
  /\ (~mounted /\ (reads # <<>> \/ writes # <<>>))
       ~> (reads = <<>> /\ writes = <<>>)
  /\ EveryTimerFires

C15_Witness == ~mounted /\ navs.timer = 2 /\ navs.cancel = 0

\* C16: while loading is true nothing has been submitted or typed and no
\* write request has been issued; an edit-mode mount issues its first write
\* request only after its read request has completed
C16_NotInteractiveWhileLoading ==
  /\ loading =>
       /\ ~submitting
       /\ edits = 0
       /\ submits = 0
       /\ writes = <<>>
       /\ formData = Blank
  /\ (isEditMode /\ submits > 0) =>
       (loadResult.kind # "none" /\ reads = <<>>)

C16_Witness == loading /\ Len(reads) = 1 /\ mounted

\* C17: the body of a write request is the ten field values at the submit
\* event; a change event while the request is in flight leaves the body as
\* it is; a successful create then resets the fields, a successful update
\* or a failure keeps them as edited
C17_BodyIsSnapshot ==
  /\ [][submits' = submits + 1 =>
          /\ Len(writes') = Len(writes) + 1
          /\ DOMAIN writes'[Len(writes')].body = Fields
          /\ \A f \in Fields :
               /\ writes'[Len(writes')].body[f] = formData[f]
               /\ IsString(writes'[Len(writes')].body[f])]_vars
  /\ [][edits' = edits + 1 => writes' = writes]_vars
  /\ [][WriteSucceeds =>
          formData' = IF isEditMode THEN formData ELSE Blank]_vars
  /\ [][WriteFails => formData' = formData]_vars

C17_Witness ==
  /\ ~isEditMode
  /\ Len(writes) = 1
  /\ writes[1].body.notes = ""
  /\ formData.notes = "x"

\* C18: the error message and the success message are never both non-empty
C18_OneBanner == ~(error # "" /\ success # "")

C18_Witness == error # "" /\ success = "" /\ okWrites = 1 /\ ~submitting

\* C19 as stated: every field of the form state is a string, and every
\* body in flight holds ten strings
C19_AllStrings ==
  /\ \A f \in Fields : IsString(formData[f])
  /\ \A i \in 1..Len(writes) :
       /\ DOMAIN writes[i].body = Fields
       /\ \A f \in Fields : IsString(writes[i].body[f])

====
